---- MODULE Spec2Model ----
(***************************************************************************)
(* Model of the Supabase keepalive worker (supabase-keepalive/src/index.js) *)
(*                                                                         *)
(* Each invocation of the worker (an HTTP request to the manual trigger or *)
(* a cron event) is a process.  An `await` of the code is a point where    *)
(* other invocations, the monitored targets, the KV store and the clock    *)
(* may act; the code between two awaits is one atomic step.                *)
(*                                                                         *)
(* Strings the code takes apart (URLs, host names) are sequences of        *)
(* one-character strings.  Instants are milliseconds since the epoch; the  *)
(* code of one continuation reads one value of the clock.  The KV store is *)
(* one register: a get returns the value of the last put.                  *)
(*                                                                         *)
(* Spec is one invocation of the worker under any environment, SpecAppend  *)
(* overlapping invocations of a worker without projects (the history is    *)
(* what they share), SpecP0 the revision without history store that is in  *)
(* src/unnamed/part_000.                                                   *)
(* SpecStatus is scheduled runs with requests to /health and /status going *)
(* on beside them, SpecManual manual triggers of a worker with three       *)
(* projects, SpecPrune one run on a store that holds a history, and        *)
(* SpecDiscover discoverProjects applied to an environment.                *)
(***************************************************************************)
EXTENDS Integers, Sequences, FiniteSets, TLC

VARIABLES
    now,           \* the clock: what Date.now() returns
    kv,            \* env.KEEPALIVE_STATUS: the value under KV_HISTORY_KEY, or NULL
    started,       \* number of runs started so far
    ticks,         \* number of clock advances so far
    pc,            \* per invocation: the await it is suspended at
    trigger,       \* runKeepalive: trigger, "manual" of fetch and "cron" of scheduled
    projects,      \* runKeepalive: projects
    pings,         \* runKeepalive: the promises of projects.map(pingProject)
    fetchCalls,    \* the requests this invocation has sent to its targets
    resultsData,   \* runKeepalive: resultsData
    existingData,  \* saveRunToKV: existingData
    cutoffTime,    \* saveRunToKV: cutoffTime
    history,       \* saveRunToKV: history
    kvCalls,       \* the calls this invocation has made on env.KEEPALIVE_STATUS
    saveResult,    \* the promise of saveRunToKV, with the line it logged
    returned,      \* the promise of runKeepalive
    response,      \* what the handler answered its caller
    envOf,         \* the env the invocation was handed
    request,       \* fetch: the /health or /status request the invocation serves,
                   \* a /status request with the instant it arrived
    statusRead     \* the promise of getStatusFromKV, with the line it logged

vars == <<now, kv, started, ticks, pc, trigger, projects, pings, fetchCalls,
          resultsData, existingData, cutoffTime, history, kvCalls, saveResult,
          returned, response, envOf, request, statusRead>>

-----------------------------------------------------------------------------
(* Bounds of the model *)

\* Spec and SpecP0: invocations of the worker, and advances of the clock, in one
\* behaviour; SpecPrune: invocations of the worker
MaxRuns == 1
MaxTicks == 1
\* SpecAppend: the same
MaxAppends == 3
MaxAppendTicks == 2
\* SpecStatus: runs of the worker, and idle periods
MaxStatusRuns == 2
MaxStatusTicks == 1
\* SpecManual: manual triggers
MaxManualRuns == 2
\* SpecPrune: runs in the history the store holds at the start
MaxLogLen == 2
\* SpecDiscover: project numbers an environment has entries for
MaxOrdinals == 2

\* invocations that can be in flight at the same time
Procs == {"w1", "w2"}

Hour == 60 * 60 * 1000
Day == 24 * Hour

\* the amounts by which the clock advances between two steps
TickSteps == {Hour, Day}

\* HTTP status codes a target answers with
Statuses == {200, 500}

-----------------------------------------------------------------------------
(* JavaScript values *)

Undefined == <<"undefined">>
NULL == <<>>

\* a JavaScript string is falsy when it is empty; undefined and null are falsy
Truthy(v) == v # Undefined /\ v # <<>>

\* Date.prototype.toISOString: YYYY-MM-DDTHH:mm:ss.sssZ, the date as the day number
toISOString(t) ==
    <<t \div Day, (t % Day) \div Hour, (t % Hour) \div (60 * 1000),
      (t % (60 * 1000)) \div 1000, t % 1000>>

\* Date.parse of an ISO string
DateParse(s) ==
    s[1] * Day + s[2] * Hour + s[3] * 60 * 1000 + s[4] * 1000 + s[5]

\* JSON.stringify / JSON.parse of a plain data object
JSONstringify(v) == <<"json", v>>
JSONparse(s) == s[2]

\* a string that JSON.parse throws on, and whether JSON.parse takes a string
Unparsable == <<"not json">>
JSONparses(s) == Len(s) = 2 /\ s[1] = "json"

\* Response.ok
ResponseOk(status) == status >= 200 /\ status <= 299

\* decimal digits of a number below 100, as `${index}` writes it
DigitChars == <<"0", "1", "2", "3", "4", "5", "6", "7", "8", "9">>
NumberToString(n) ==
    IF n < 10 THEN <<DigitChars[n + 1]>>
    ELSE <<DigitChars[(n \div 10) + 1], DigitChars[(n % 10) + 1]>>

\* first position >= from at which s holds one of the characters cs, or Len(s)+1
RECURSIVE IndexOfAny(_, _, _)
IndexOfAny(s, cs, from) ==
    IF from > Len(s) THEN Len(s) + 1
    ELSE IF s[from] \in cs THEN from
    ELSE IndexOfAny(s, cs, from + 1)

\* new URL(url).hostname for the URLs of the model: scheme "://" host [ "/" ... ];
\* the constructor throws (here: Undefined) without a scheme or, for https, without
\* a host
URLhostname(url) ==
    LET colon == IndexOfAny(url, {":"}, 1)
        hostStart == colon + 3
        hostEnd == IndexOfAny(url, {"/", "?", "#"}, hostStart)
    IN  IF colon = 1 \/ colon + 2 > Len(url) THEN Undefined
        ELSE IF url[colon + 1] # "/" \/ url[colon + 2] # "/" THEN Undefined
        ELSE IF hostEnd = hostStart THEN Undefined
        ELSE SubSeq(url, hostStart, hostEnd - 1)

-----------------------------------------------------------------------------
(* Target discovery *)

\* highest project number discoverProjects looks for
MaxProjectIndex == 99

EnvLookup(env, name) == IF name \in DOMAIN env THEN env[name] ELSE Undefined

\* extractProjectName giving the whole host name
extractProjectNameHost(url, index) ==
    LET hostname == URLhostname(url)
        fallback == <<"p", "r", "o", "j", "e", "c", "t", "-">> \o NumberToString(index)
    IN  IF hostname = Undefined THEN fallback
        ELSE IF Truthy(hostname) THEN hostname ELSE fallback

\* extractProjectName(url, index)
extractProjectName(url, index) ==
    LET hostname == URLhostname(url)
        fallback == <<"p", "r", "o", "j", "e", "c", "t", "-">> \o NumberToString(index)
    IN  IF hostname = Undefined THEN fallback
        ELSE LET projectId == SubSeq(hostname, 1, IndexOfAny(hostname, {"."}, 1) - 1)
             IN  IF Truthy(projectId) THEN projectId ELSE fallback

\* one iteration of the loop of discoverProjects: what it pushes for number i
DiscoverOne(env, i) ==
    LET url == EnvLookup(env, <<"SUPABASE_URL", i>>)
        anonKey == EnvLookup(env, <<"SUPABASE_ANON_KEY", i>>)
    IN  IF Truthy(url) /\ Truthy(anonKey)
        THEN <<[name |-> extractProjectName(url, i), url |-> url,
                anonKey |-> anonKey]>>
        ELSE <<>>

\* the iterations first..last of the loop of discoverProjects, in their order
\* (halved, to keep the evaluation shallow)
RECURSIVE DiscoverRange(_, _, _)
DiscoverRange(env, first, last) ==
    IF first > last THEN <<>>
    ELSE IF first = last THEN DiscoverOne(env, first)
    ELSE LET mid == (first + last) \div 2
         IN  DiscoverRange(env, first, mid) \o DiscoverRange(env, mid + 1, last)

\* discoverProjects with its loop starting at project number 2
discoverProjectsFromTwo(env) == DiscoverRange(env, 2, MaxProjectIndex)

\* discoverProjects(env)
discoverProjects(env) == DiscoverRange(env, 1, MaxProjectIndex)

UrlA == <<"h", "t", "t", "p", "s", ":", "/", "/", "a", ".", "c", "o">>
UrlB == <<"h", "t", "t", "p", "s", ":", "/", "/", "b", ".", "c", "o">>
UrlC == <<"h", "t", "t", "p", "s", ":", "/", "/", "c", ".", "c", "o">>
UrlBad == <<"n", "o", "-", "u", "r", "l">>

\* the worker environments of the model: no project; one project; two projects
\* after an incomplete pair and a gap, the second with a URL that does not parse
EnvNone == <<>>
EnvOne == (<<"SUPABASE_URL", 1>> :> UrlA) @@ (<<"SUPABASE_ANON_KEY", 1>> :> <<"k", "1">>)
EnvTwo ==
    (<<"SUPABASE_URL", 1>> :> UrlB) @@
    (<<"SUPABASE_URL", 2>> :> UrlA) @@ (<<"SUPABASE_ANON_KEY", 2>> :> <<"k", "2">>) @@
    (<<"SUPABASE_URL", 4>> :> UrlBad) @@ (<<"SUPABASE_ANON_KEY", 4>> :> <<"k", "4">>)
Envs == {EnvNone, EnvOne, EnvTwo}

\* an environment with three projects
EnvThree ==
    (<<"SUPABASE_URL", 1>> :> UrlA) @@ (<<"SUPABASE_ANON_KEY", 1>> :> <<"k", "1">>) @@
    (<<"SUPABASE_URL", 2>> :> UrlB) @@ (<<"SUPABASE_ANON_KEY", 2>> :> <<"k", "2">>) @@
    (<<"SUPABASE_URL", 3>> :> UrlC) @@ (<<"SUPABASE_ANON_KEY", 3>> :> <<"k", "3">>)
ManualEnvs == {EnvNone, EnvThree}

\* more URLs: one with a longer first label and a path, one whose first label is
\* empty
UrlLong == <<"h", "t", "t", "p", "s", ":", "/", "/", "a", "b", "c", ".",
             "s", "b", ".", "c", "o", "/", "x">>
UrlNoLabel == <<"h", "t", "t", "p", "s", ":", "/", "/", ".", "c", "o">>

\* the environments discoverProjects is applied to on its own: for each of a few
\* project numbers a URL entry that is missing, empty or one of the URLs above and
\* a key entry that is missing, empty or a key, and entries for project number
\* 100 or not
OrdinalList == <<1, 99, 12, 57>>
DiscoverOrdinals == {OrdinalList[k] : k \in 1..MaxOrdinals}
UrlChoices == {Undefined, <<>>, UrlA, UrlLong, UrlBad, UrlNoLabel}
KeyOf(i) == <<"k">> \o NumberToString(i)
KeyChoices(i) == {Undefined, <<>>, KeyOf(i)}
EnvBeyond ==
    (<<"SUPABASE_URL", MaxProjectIndex + 1>> :> UrlA) @@
    (<<"SUPABASE_ANON_KEY", MaxProjectIndex + 1>> :> <<"k", "1", "0", "0">>)
EnvWith(urls, keys, beyond) ==
    LET set == {<<"SUPABASE_URL", i>> : i \in {j \in DiscoverOrdinals : urls[j] # Undefined}}
               \cup {<<"SUPABASE_ANON_KEY", i>> :
                        i \in {j \in DiscoverOrdinals : keys[j] # Undefined}}
        entries == [k \in set |-> IF k[1] = "SUPABASE_URL" THEN urls[k[2]]
                                                            ELSE keys[k[2]]]
    IN  IF beyond THEN entries @@ EnvBeyond ELSE entries
DiscoverEnvs ==
    {EnvWith(urls, keys, beyond) :
        urls \in [DiscoverOrdinals -> UrlChoices],
        keys \in {f \in [DiscoverOrdinals -> UNION {KeyChoices(i) : i \in DiscoverOrdinals}] :
                    \A i \in DiscoverOrdinals : f[i] \in KeyChoices(i)},
        beyond \in BOOLEAN}

\* const projects = discoverProjects(env), for each environment of the model
Discovered == [env \in Envs \cup ManualEnvs |-> discoverProjects(env)]

-----------------------------------------------------------------------------
(* The probe: pingProject *)

\* the request pingProject sends
PingRequest(project) ==
    [url |-> project.url \o <<"/rest/v1/keepalive?select=id">>,
     apikey |-> project.anonKey]

\* pingProject taking every response for a success
pingProjectResponseAlwaysOk(project, startTime, resp, t) ==
    [project |-> project.name,
     success |-> TRUE,
     statusCode |-> resp.status,
     duration |-> t - startTime,
     timestamp |-> toISOString(t)]

\* pingProject after the await of fetch has returned a response, at instant t
pingProjectResponse(project, startTime, resp, t) ==
    [project |-> project.name,
     success |-> resp.ok,
     statusCode |-> resp.status,
     duration |-> t - startTime,
     timestamp |-> toISOString(t)]

\* pingProject's catch block: the await of fetch has thrown error, at instant t
pingProjectCatch(project, startTime, error, t) ==
    [project |-> project.name,
     success |-> FALSE,
     error |-> error.message,
     duration |-> t - startTime,
     timestamp |-> toISOString(t)]

\* pingProject up to its await: the promise of one probe
pingProjectStart(project, t) ==
    [state |-> "pending", project |-> project, startTime |-> t]

-----------------------------------------------------------------------------
(* The run: runKeepalive *)

\* Promise.all keeping only the results of the probes that succeeded
PromiseAllSucceeded(ps) ==
    SelectSeq([i \in 1..Len(ps) |-> ps[i].value], LAMBDA r : r.success)

\* the value of Promise.all over fulfilled promises
PromiseAll(ps) == [i \in 1..Len(ps) |-> ps[i].value]

\* resultsData of the branch without projects
NoProjectsData ==
    [success |-> FALSE,
     message |-> <<"No projects configured">>,
     results |-> <<>>,
     summary |-> [total |-> 0, succeeded |-> 0, failed |-> 0]]

\* Aggregate counting as failed only the probes that threw
AggregateCountingErrors(results) ==
    LET succeeded == Len(SelectSeq(results, LAMBDA r : r.success))
        failed == Len(SelectSeq(results, LAMBDA r : "error" \in DOMAIN r))
    IN  [success |-> failed = 0,
         message |-> <<"Pinged", Len(results), "project(s):", succeeded,
                       "succeeded,", failed, "failed">>,
         results |-> results,
         summary |-> [total |-> Len(results), succeeded |-> succeeded,
                      failed |-> failed]]

\* Aggregate calling a run a success when any probe succeeded
AggregateAnySucceeded(results) ==
    LET succeeded == Len(SelectSeq(results, LAMBDA r : r.success))
        failed == Len(SelectSeq(results, LAMBDA r : ~r.success))
    IN  [success |-> succeeded > 0,
         message |-> <<"Pinged", Len(results), "project(s):", succeeded,
                       "succeeded,", failed, "failed">>,
         results |-> results,
         summary |-> [total |-> Len(results), succeeded |-> succeeded,
                      failed |-> failed]]

\* resultsData built from the results of the probes
Aggregate(results) ==
    LET succeeded == Len(SelectSeq(results, LAMBDA r : r.success))
        failed == Len(SelectSeq(results, LAMBDA r : ~r.success))
    IN  [success |-> failed = 0,
         message |-> <<"Pinged", Len(results), "project(s):", succeeded,
                       "succeeded,", failed, "failed">>,
         results |-> results,
         summary |-> [total |-> Len(results), succeeded |-> succeeded,
                      failed |-> failed]]

-----------------------------------------------------------------------------
(* The history: saveRunToKV *)

HISTORY_RETENTION_MS == 24 * 60 * 60 * 1000

\* new Date(run.timestamp).getTime()
RunTimeOf(run) == DateParse(run.timestamp)

\* an entry that does not take the trigger it is given
NewRunUnknownTrigger(runData, trig, t) ==
    [timestamp |-> toISOString(t),
     trigger |-> "unknown",
     success |-> runData.success,
     results |-> runData.results,
     summary |-> runData.summary]

\* the entry saveRunToKV adds for runData, at instant t
NewRun(runData, trig, t) ==
    [timestamp |-> toISOString(t),
     trigger |-> trig,
     success |-> runData.success,
     results |-> runData.results,
     summary |-> runData.summary]

\* the filter dropping the entry that is exactly 24 hours old
PruneStrict(runs, cutoff) ==
    SelectSeq(runs, LAMBDA run : DateParse(run.timestamp) > cutoff)

\* a filter that also drops the oldest of the runs it keeps
PruneDroppingOldest(runs, cutoff) ==
    LET kept == SelectSeq(runs, LAMBDA run : DateParse(run.timestamp) >= cutoff)
    IN  IF Len(kept) >= 2 THEN Tail(kept) ELSE kept

\* a filter that keeps only the runs of the 24 hours before the instant of the
\* prune, that instant excluded
PruneBeforeNow(runs, cutoff) ==
    SelectSeq(runs, LAMBDA run : /\ DateParse(run.timestamp) >= cutoff
                                 /\ DateParse(run.timestamp) < cutoff + HISTORY_RETENTION_MS)

\* the filter of saveRunToKV
Prune(runs, cutoff) ==
    SelectSeq(runs, LAMBDA run : DateParse(run.timestamp) >= cutoff)

\* saveRunToKV starting from an empty history whatever it has read
NextHistoryFresh(existing, runData, trig, t) ==
    [runs |-> Prune(<<NewRun(runData, trig, t)>>, t - HISTORY_RETENTION_MS),
     lastUpdated |-> toISOString(t)]

\* saveRunToKV putting the new run first
NextHistoryNewestFirst(existing, runData, trig, t) ==
    LET hist == IF Truthy(existing) THEN JSONparse(existing) ELSE [runs |-> <<>>]
        pushed == <<NewRun(runData, trig, t)>> \o hist.runs
    IN  [runs |-> Prune(pushed, t - HISTORY_RETENTION_MS),
         lastUpdated |-> toISOString(t)]

\* saveRunToKV leaving out the run that had no project
NextHistorySkippingEmpty(existing, runData, trig, t) ==
    LET hist == IF Truthy(existing) THEN JSONparse(existing) ELSE [runs |-> <<>>]
        pushed == IF runData.summary.total = 0 THEN hist.runs
                  ELSE Append(hist.runs, NewRun(runData, trig, t))
    IN  [runs |-> Prune(pushed, t - HISTORY_RETENTION_MS),
         lastUpdated |-> toISOString(t)]

\* saveRunToKV between the await of get and the call of put, at instant t:
\* the history it is about to write
NextHistory(existing, runData, trig, t) ==
    LET hist == IF Truthy(existing) THEN JSONparse(existing) ELSE [runs |-> <<>>]
        pushed == Append(hist.runs, NewRun(runData, trig, t))
    IN  [runs |-> Prune(pushed, t - HISTORY_RETENTION_MS),
         lastUpdated |-> toISOString(t)]

-----------------------------------------------------------------------------
(* The handlers *)

\* the value of a local that has not been assigned, and a promise not yet made
NoRecord == [unset |-> TRUE]
NoPromise == [state |-> "none"]

\* a put that adds the new run to what the store holds when the put arrives
KvPutMerged(p) ==
    LET stored == IF Truthy(kv) THEN JSONparse(kv).runs ELSE <<>>
        own == history[p].runs[Len(history[p].runs)]
    IN  JSONstringify([runs |-> Append(stored, own),
                       lastUpdated |-> history[p].lastUpdated])

\* what saveRunToKV passes to put
KvPutValue(p) == JSONstringify(history[p])

\* saveRunToKV after its put has returned
saveRunToKVDone(hist) ==
    [state |-> "fulfilled",
     console |-> <<"Saved run to KV history", Len(hist.runs)>>]

\* a catch block that logs and throws the error again
saveRunToKVRethrow(error) ==
    [state |-> "rejected",
     reason |-> error,
     console |-> <<"Failed to save to KV", error.message>>]

\* saveRunToKV's catch block
saveRunToKVCatch(error) ==
    [state |-> "fulfilled",
     console |-> <<"Failed to save to KV", error.message>>]

\* return resultsData, after the await of saveRunToKV
runKeepaliveReturn(saved, data) ==
    IF saved.state = "rejected"
    THEN [state |-> "rejected", reason |-> saved.reason]
    ELSE [state |-> "fulfilled", value |-> data]

\* a Response of the manual trigger that always has status 200
ManualResponseOk(results) ==
    [status |-> 200,
     body |-> JSONstringify(results)]

\* the Response of the manual trigger
ManualResponse(results) ==
    [status |-> IF results.success THEN 200 ELSE 207,
     body |-> JSONstringify(results)]

\* what the caller of a handler gets: of fetch its Response, or the runtime's
\* error page when the handler throws; of scheduled nothing
HandlerResponse(trig, run) ==
    IF trig # "manual" THEN [none |-> TRUE]
    ELSE IF run.state = "rejected" THEN [status |-> 500, body |-> <<"exception">>]
    ELSE ManualResponse(run.value)

Init ==
    /\ now = 0
    /\ kv = NULL
    /\ started = 0
    /\ ticks = 0
    /\ pc = [p \in Procs |-> "idle"]
    /\ trigger = [p \in Procs |-> "unknown"]
    /\ projects = [p \in Procs |-> <<>>]
    /\ pings = [p \in Procs |-> <<>>]
    /\ fetchCalls = [p \in Procs |-> <<>>]
    /\ resultsData = [p \in Procs |-> NoRecord]
    /\ existingData = [p \in Procs |-> NULL]
    /\ cutoffTime = [p \in Procs |-> 0]
    /\ history = [p \in Procs |-> NoRecord]
    /\ kvCalls = [p \in Procs |-> <<>>]
    /\ saveResult = [p \in Procs |-> NoPromise]
    /\ returned = [p \in Procs |-> NoPromise]
    /\ response = [p \in Procs |-> NoRecord]
    /\ envOf = [p \in Procs |-> EnvNone]
    /\ request = [p \in Procs |-> NoRecord]
    /\ statusRead = [p \in Procs |-> NoPromise]

\* runKeepalive(env, trig) up to its first await: of Promise.all, or, without
\* projects, of the get in saveRunToKV
runKeepaliveStart(p, env, trig) ==
    LET found == Discovered[env]
    IN  /\ pc[p] \in {"idle", "done"}
        /\ started' = started + 1
        /\ trigger' = [trigger EXCEPT ![p] = trig]
        /\ projects' = [projects EXCEPT ![p] = found]
        /\ existingData' = [existingData EXCEPT ![p] = NULL]
        /\ cutoffTime' = [cutoffTime EXCEPT ![p] = 0]
        /\ history' = [history EXCEPT ![p] = NoRecord]
        /\ saveResult' = [saveResult EXCEPT ![p] = NoPromise]
        /\ returned' = [returned EXCEPT ![p] = NoPromise]
        /\ response' = [response EXCEPT ![p] = NoRecord]
        /\ IF Len(found) = 0
           THEN /\ resultsData' = [resultsData EXCEPT ![p] = NoProjectsData]
                /\ pings' = [pings EXCEPT ![p] = <<>>]
                /\ fetchCalls' = [fetchCalls EXCEPT ![p] = <<>>]
                /\ kvCalls' = [kvCalls EXCEPT ![p] = <<"get">>]
                /\ pc' = [pc EXCEPT ![p] = "await_get"]
           ELSE /\ resultsData' = [resultsData EXCEPT ![p] = NoRecord]
                /\ pings' = [pings EXCEPT ![p] =
                       [i \in 1..Len(found) |-> pingProjectStart(found[i], now)]]
                /\ fetchCalls' = [fetchCalls EXCEPT ![p] =
                       [i \in 1..Len(found) |-> PingRequest(found[i])]]
                /\ kvCalls' = [kvCalls EXCEPT ![p] = <<>>]
                /\ pc' = [pc EXCEPT ![p] = "await_pings"]
        /\ envOf' = [envOf EXCEPT ![p] = env]
        /\ request' = [request EXCEPT ![p] = NoRecord]
        /\ statusRead' = [statusRead EXCEPT ![p] = NoPromise]
        /\ UNCHANGED <<now, kv, ticks>>

\* fetch(request, env, ctx) for a path other than /health and /status
FetchManual(p, env) == runKeepaliveStart(p, env, "manual")

\* scheduled(event, env, ctx)
Scheduled(p, env) == runKeepaliveStart(p, env, "cron")

\* a target answers probe i with an HTTP status
PingResponse(p, i) ==
    /\ pc[p] = "await_pings"
    /\ pings[p][i].state = "pending"
    /\ \E status \in Statuses :
         LET resp == [ok |-> ResponseOk(status), status |-> status]
             ping == pings[p][i]
         IN  pings' = [pings EXCEPT ![p][i] =
                 [state |-> "fulfilled", project |-> ping.project,
                  startTime |-> ping.startTime, settled |-> resp,
                  value |-> pingProjectResponse(ping.project, ping.startTime,
                                                resp, now)]]
    /\ UNCHANGED <<now, kv, started, ticks, pc, trigger, projects, fetchCalls,
                   resultsData, existingData, cutoffTime, history, kvCalls,
                   saveResult, returned, response,
                   envOf, request, statusRead>>

\* the request of probe i fails at transport level: fetch throws
PingError(p, i) ==
    /\ pc[p] = "await_pings"
    /\ pings[p][i].state = "pending"
    /\ LET error == [message |-> <<"fetch failed">>]
           ping == pings[p][i]
       IN  pings' = [pings EXCEPT ![p][i] =
               [state |-> "fulfilled", project |-> ping.project,
                startTime |-> ping.startTime, settled |-> error,
                value |-> pingProjectCatch(ping.project, ping.startTime,
                                           error, now)]]
    /\ UNCHANGED <<now, kv, started, ticks, pc, trigger, projects, fetchCalls,
                   resultsData, existingData, cutoffTime, history, kvCalls,
                   saveResult, returned, response,
                   envOf, request, statusRead>>

\* a runKeepalive that goes on as soon as one probe has failed, with the results
\* it has by then
AwaitPingsFailFast(p) ==
    LET settled == SelectSeq(pings[p], LAMBDA ping : ping.state = "fulfilled")
    IN  /\ pc[p] = "await_pings"
        /\ \/ \A i \in 1..Len(pings[p]) : pings[p][i].state = "fulfilled"
           \/ \E i \in 1..Len(settled) : ~settled[i].value.success
        /\ resultsData' = [resultsData EXCEPT ![p] = Aggregate(PromiseAll(settled))]
        /\ kvCalls' = [kvCalls EXCEPT ![p] = <<"get">>]
        /\ pc' = [pc EXCEPT ![p] = "await_get"]
        /\ UNCHANGED <<now, kv, started, ticks, trigger, projects, pings,
                       fetchCalls, existingData, cutoffTime, history, saveResult,
                       returned, response, envOf, request, statusRead>>

\* runKeepalive from the await of Promise.all to the await of get in saveRunToKV
AwaitPings(p) ==
    /\ pc[p] = "await_pings"
    /\ \A i \in 1..Len(pings[p]) : pings[p][i].state = "fulfilled"
    /\ resultsData' = [resultsData EXCEPT ![p] = Aggregate(PromiseAll(pings[p]))]
    /\ kvCalls' = [kvCalls EXCEPT ![p] = <<"get">>]
    /\ pc' = [pc EXCEPT ![p] = "await_get"]
    /\ UNCHANGED <<now, kv, started, ticks, trigger, projects, pings, fetchCalls,
                   existingData, cutoffTime, history, saveResult, returned,
                   response,
                   envOf, request, statusRead>>

\* the store answers the get; saveRunToKV runs on to its call of put
KvGet(p) ==
    /\ pc[p] = "await_get"
    /\ Truthy(kv) => JSONparses(kv)
    /\ existingData' = [existingData EXCEPT ![p] = kv]
    /\ cutoffTime' = [cutoffTime EXCEPT ![p] = now - HISTORY_RETENTION_MS]
    /\ history' = [history EXCEPT ![p] =
           NextHistory(kv, resultsData[p], trigger[p], now)]
    /\ kvCalls' = [kvCalls EXCEPT ![p] = Append(@, "put")]
    /\ pc' = [pc EXCEPT ![p] = "await_put"]
    /\ UNCHANGED <<now, kv, started, ticks, trigger, projects, pings, fetchCalls,
                   resultsData, saveResult, returned, response,
                   envOf, request, statusRead>>

\* the store answers the get with a value JSON.parse throws on: saveRunToKV's
\* catch block
KvGetUnparsable(p) ==
    /\ pc[p] = "await_get"
    /\ Truthy(kv) /\ ~JSONparses(kv)
    /\ existingData' = [existingData EXCEPT ![p] = kv]
    /\ saveResult' = [saveResult EXCEPT ![p] =
           saveRunToKVCatch([message |-> <<"Unexpected token">>])]
    /\ pc' = [pc EXCEPT ![p] = "saved"]
    /\ UNCHANGED <<now, kv, started, ticks, trigger, projects, pings, fetchCalls,
                   resultsData, cutoffTime, history, kvCalls, returned, response,
                   envOf, request, statusRead>>

\* a failed get after which saveRunToKV starts the history over with the new run
KvGetFailStartingOver(p) ==
    /\ pc[p] = "await_get"
    /\ kv' = JSONstringify(NextHistory(NULL, resultsData[p], trigger[p], now))
    /\ kvCalls' = [kvCalls EXCEPT ![p] = Append(@, "put")]
    /\ saveResult' = [saveResult EXCEPT ![p] =
           saveRunToKVCatch([message |-> <<"KV GET failed">>])]
    /\ pc' = [pc EXCEPT ![p] = "saved"]
    /\ UNCHANGED <<now, started, ticks, trigger, projects, pings, fetchCalls,
                   resultsData, existingData, cutoffTime, history, returned,
                   response, envOf, request, statusRead>>

\* the get fails: saveRunToKV's catch block
KvGetFail(p) ==
    /\ pc[p] = "await_get"
    /\ saveResult' = [saveResult EXCEPT ![p] =
           saveRunToKVCatch([message |-> <<"KV GET failed">>])]
    /\ pc' = [pc EXCEPT ![p] = "saved"]
    /\ UNCHANGED <<now, kv, started, ticks, trigger, projects, pings, fetchCalls,
                   resultsData, existingData, cutoffTime, history, kvCalls,
                   returned, response,
                   envOf, request, statusRead>>

\* the store takes the put
KvPut(p) ==
    /\ pc[p] = "await_put"
    /\ kv' = KvPutValue(p)
    /\ saveResult' = [saveResult EXCEPT ![p] = saveRunToKVDone(history[p])]
    /\ pc' = [pc EXCEPT ![p] = "saved"]
    /\ UNCHANGED <<now, started, ticks, trigger, projects, pings, fetchCalls,
                   resultsData, existingData, cutoffTime, history, kvCalls,
                   returned, response,
                   envOf, request, statusRead>>

\* the put fails: saveRunToKV's catch block
KvPutFail(p) ==
    /\ pc[p] = "await_put"
    /\ saveResult' = [saveResult EXCEPT ![p] =
           saveRunToKVCatch([message |-> <<"KV PUT failed">>])]
    /\ pc' = [pc EXCEPT ![p] = "saved"]
    /\ UNCHANGED <<now, kv, started, ticks, trigger, projects, pings, fetchCalls,
                   resultsData, existingData, cutoffTime, history, kvCalls,
                   returned, response,
                   envOf, request, statusRead>>

\* saveRunToKV has settled: runKeepalive returns, and its handler after it
Return(p) ==
    /\ pc[p] = "saved"
    /\ returned' = [returned EXCEPT ![p] =
           runKeepaliveReturn(saveResult[p], resultsData[p])]
    /\ response' = [response EXCEPT ![p] =
           HandlerResponse(trigger[p], returned'[p])]
    /\ pc' = [pc EXCEPT ![p] = "done"]
    /\ UNCHANGED <<now, kv, started, ticks, trigger, projects, pings, fetchCalls,
                   resultsData, existingData, cutoffTime, history, kvCalls,
                   saveResult,
                   envOf, request, statusRead>>

-----------------------------------------------------------------------------
(* The read-only routes: /health and /status *)

\* null, as against a parsed object
IsNull(v) == DOMAIN v = {}

ReadOnlyHeaders ==
    ("Content-Type" :> "application/json") @@ ("Access-Control-Allow-Origin" :> "*")

\* the Response of /health
HealthResponse ==
    [status |-> 200,
     headers |-> ("Content-Type" :> "application/json"),
     body |-> JSONstringify([status |-> "ok"])]

\* getStatusFromKV after its get has returned data
getStatusFromKVReturn(data) ==
    [state |-> "fulfilled",
     value |-> IF ~Truthy(data) THEN NULL ELSE JSONparse(data),
     console |-> <<>>]

\* a catch block that logs and throws the error again
getStatusFromKVRethrow(error) ==
    [state |-> "rejected",
     reason |-> error,
     console |-> <<"Failed to read from KV", error.message>>]

\* getStatusFromKV's catch block
getStatusFromKVCatch(error) ==
    [state |-> "fulfilled",
     value |-> NULL,
     console |-> <<"Failed to read from KV", error.message>>]

\* the Response of /status when there is nothing to report
NoDataResponse ==
    [status |-> 200,
     headers |-> ReadOnlyHeaders,
     body |-> JSONstringify(
         [service |-> "supabase-keepalive",
          status |-> "no_data",
          message |-> "No ping history available yet. The worker runs every 6 hours.",
          nextRun |-> "Runs every 6 hours"])]

\* the Response of /status for lastRun, healthy or not as allHealthy says
StatusReport(hist, lastRun, allHealthy) ==
    [status |-> IF allHealthy THEN 200 ELSE 503,
     headers |-> ReadOnlyHeaders,
     body |-> JSONstringify(
         [service |-> "supabase-keepalive",
          lastRun |-> lastRun.timestamp,
          nextRun |-> "Runs every 6 hours",
          status |-> IF allHealthy THEN "healthy" ELSE "degraded",
          trigger |-> lastRun.trigger,
          results |-> lastRun.results,
          summary |-> lastRun.summary,
          history |-> [available |-> TRUE,
                       runCount |-> Len(hist.runs),
                       oldestRun |-> IF Len(hist.runs) > 0
                                     THEN hist.runs[1].timestamp ELSE NULL]])]

\* handleStatusEndpoint calling the worker healthy when every run of the log
\* succeeded
handleStatusEndpointAllRuns(hist) ==
    IF IsNull(hist) \/ Len(hist.runs) = 0 THEN NoDataResponse
    ELSE StatusReport(hist, hist.runs[Len(hist.runs)],
                      \A i \in 1..Len(hist.runs) : hist.runs[i].success)

\* handleStatusEndpoint after the await of getStatusFromKV has returned hist
handleStatusEndpoint(hist) ==
    IF IsNull(hist) \/ Len(hist.runs) = 0 THEN NoDataResponse
    ELSE LET lastRun == hist.runs[Len(hist.runs)]
         IN  StatusReport(hist, lastRun, lastRun.success)

\* what the caller of /status gets: the Response, or the runtime's error page
\* when getStatusFromKV throws
StatusResponse(read) ==
    IF read.state = "rejected" THEN [status |-> 500, body |-> <<"exception">>]
    ELSE handleStatusEndpoint(read.value)

\* the locals of runKeepalive and saveRunToKV in an invocation that calls neither
NoRun(p) ==
    /\ trigger' = [trigger EXCEPT ![p] = "unknown"]
    /\ projects' = [projects EXCEPT ![p] = <<>>]
    /\ pings' = [pings EXCEPT ![p] = <<>>]
    /\ fetchCalls' = [fetchCalls EXCEPT ![p] = <<>>]
    /\ resultsData' = [resultsData EXCEPT ![p] = NoRecord]
    /\ existingData' = [existingData EXCEPT ![p] = NULL]
    /\ cutoffTime' = [cutoffTime EXCEPT ![p] = 0]
    /\ history' = [history EXCEPT ![p] = NoRecord]
    /\ saveResult' = [saveResult EXCEPT ![p] = NoPromise]
    /\ returned' = [returned EXCEPT ![p] = NoPromise]

\* fetch(request, env, ctx) for the path /health
FetchHealth(p, env) ==
    /\ pc[p] \in {"idle", "done"}
    /\ NoRun(p)
    /\ envOf' = [envOf EXCEPT ![p] = env]
    /\ request' = [request EXCEPT ![p] = [pathname |-> "/health"]]
    /\ statusRead' = [statusRead EXCEPT ![p] = NoPromise]
    /\ kvCalls' = [kvCalls EXCEPT ![p] = <<>>]
    /\ response' = [response EXCEPT ![p] = HealthResponse]
    /\ pc' = [pc EXCEPT ![p] = "done"]
    /\ UNCHANGED <<now, kv, started, ticks>>

\* fetch(request, env, ctx) for the path /status, up to the await of get in
\* getStatusFromKV
FetchStatus(p, env) ==
    /\ pc[p] \in {"idle", "done"}
    /\ NoRun(p)
    /\ envOf' = [envOf EXCEPT ![p] = env]
    /\ request' = [request EXCEPT ![p] = [pathname |-> "/status", time |-> now]]
    /\ statusRead' = [statusRead EXCEPT ![p] = [state |-> "pending"]]
    /\ kvCalls' = [kvCalls EXCEPT ![p] = <<"get">>]
    /\ response' = [response EXCEPT ![p] = NoRecord]
    /\ pc' = [pc EXCEPT ![p] = "await_status"]
    /\ UNCHANGED <<now, kv, started, ticks>>

\* a /status that writes the history back without the runs older than 24 hours
StatusKvGetPruning(p) ==
    /\ pc[p] = "await_status"
    /\ statusRead' = [statusRead EXCEPT ![p] = getStatusFromKVReturn(kv)]
    /\ response' = [response EXCEPT ![p] = StatusResponse(statusRead'[p])]
    /\ pc' = [pc EXCEPT ![p] = "done"]
    /\ kv' = IF kv = NULL THEN kv
             ELSE JSONstringify(
                      [runs |-> Prune(JSONparse(kv).runs, now - HISTORY_RETENTION_MS),
                       lastUpdated |-> JSONparse(kv).lastUpdated])
    /\ UNCHANGED <<now, started, ticks, trigger, projects, pings, fetchCalls,
                   resultsData, existingData, cutoffTime, history, kvCalls,
                   saveResult, returned, envOf, request>>

\* the store answers the get of getStatusFromKV; handleStatusEndpoint and fetch
\* return
StatusKvGet(p) ==
    /\ pc[p] = "await_status"
    /\ statusRead' = [statusRead EXCEPT ![p] = getStatusFromKVReturn(kv)]
    /\ response' = [response EXCEPT ![p] = StatusResponse(statusRead'[p])]
    /\ pc' = [pc EXCEPT ![p] = "done"]
    /\ UNCHANGED <<now, kv, started, ticks, trigger, projects, pings, fetchCalls,
                   resultsData, existingData, cutoffTime, history, kvCalls,
                   saveResult, returned, envOf, request>>

\* the get of getStatusFromKV fails
StatusKvGetFail(p) ==
    /\ pc[p] = "await_status"
    /\ statusRead' = [statusRead EXCEPT ![p] =
           getStatusFromKVCatch([message |-> <<"KV GET failed">>])]
    /\ response' = [response EXCEPT ![p] = StatusResponse(statusRead'[p])]
    /\ pc' = [pc EXCEPT ![p] = "done"]
    /\ UNCHANGED <<now, kv, started, ticks, trigger, projects, pings, fetchCalls,
                   resultsData, existingData, cutoffTime, history, kvCalls,
                   saveResult, returned, envOf, request>>

-----------------------------------------------------------------------------
(* The revision of the worker in src/unnamed/part_000: it has no history store *)

\* the request its pingProject sends
PingRequestP0(project) ==
    [url |-> project.url \o <<"/rest/v1/">>, apikey |-> project.anonKey]

\* its runKeepalive(env) up to the await of Promise.all, or, without projects, to
\* its return; handler is the handler that called it
runKeepaliveP0(p, env, handler) ==
    LET found == Discovered[env]
    IN  /\ pc[p] \in {"idle", "done"}
        /\ started' = started + 1
        /\ trigger' = [trigger EXCEPT ![p] = handler]
        /\ projects' = [projects EXCEPT ![p] = found]
        /\ kvCalls' = [kvCalls EXCEPT ![p] = <<>>]
        /\ IF Len(found) = 0
           THEN /\ resultsData' = [resultsData EXCEPT ![p] = NoProjectsData]
                /\ pings' = [pings EXCEPT ![p] = <<>>]
                /\ fetchCalls' = [fetchCalls EXCEPT ![p] = <<>>]
                /\ returned' = [returned EXCEPT ![p] =
                       [state |-> "fulfilled", value |-> NoProjectsData]]
                /\ response' = [response EXCEPT ![p] =
                       HandlerResponse(handler, returned'[p])]
                /\ pc' = [pc EXCEPT ![p] = "done"]
           ELSE /\ resultsData' = [resultsData EXCEPT ![p] = NoRecord]
                /\ pings' = [pings EXCEPT ![p] =
                       [i \in 1..Len(found) |-> pingProjectStart(found[i], now)]]
                /\ fetchCalls' = [fetchCalls EXCEPT ![p] =
                       [i \in 1..Len(found) |-> PingRequestP0(found[i])]]
                /\ returned' = [returned EXCEPT ![p] = NoPromise]
                /\ response' = [response EXCEPT ![p] = NoRecord]
                /\ pc' = [pc EXCEPT ![p] = "await_pings"]
        /\ envOf' = [envOf EXCEPT ![p] = env]
        /\ request' = [request EXCEPT ![p] = NoRecord]
        /\ statusRead' = [statusRead EXCEPT ![p] = NoPromise]
        /\ UNCHANGED <<now, kv, ticks, existingData, cutoffTime, history,
                       saveResult>>

\* its fetch(request, env, ctx) for a path other than /health
FetchP0(p, env) == runKeepaliveP0(p, env, "manual")

\* its scheduled(event, env, ctx)
ScheduledP0(p, env) == runKeepaliveP0(p, env, "cron")

\* its runKeepalive from the await of Promise.all to its return, and the handler
AwaitPingsP0(p) ==
    /\ pc[p] = "await_pings"
    /\ \A i \in 1..Len(pings[p]) : pings[p][i].state = "fulfilled"
    /\ resultsData' = [resultsData EXCEPT ![p] = Aggregate(PromiseAll(pings[p]))]
    /\ returned' = [returned EXCEPT ![p] =
           [state |-> "fulfilled", value |-> resultsData'[p]]]
    /\ response' = [response EXCEPT ![p] =
           HandlerResponse(trigger[p], returned'[p])]
    /\ pc' = [pc EXCEPT ![p] = "done"]
    /\ UNCHANGED <<now, kv, started, ticks, trigger, projects, pings, fetchCalls,
                   existingData, cutoffTime, history, kvCalls, saveResult,
                   envOf, request, statusRead>>

\* time passes
Tick ==
    /\ \E d \in TickSteps : now' = now + d
    /\ ticks' = ticks + 1
    /\ UNCHANGED <<kv, started, pc, trigger, projects, pings, fetchCalls,
                   resultsData, existingData, cutoffTime, history, kvCalls,
                   saveResult, returned, response,
                   envOf, request, statusRead>>

\* const projects = discoverProjects(env), on its own
Discover(p) ==
    /\ pc[p] = "idle"
    /\ projects' = [projects EXCEPT ![p] = discoverProjects(envOf[p])]
    /\ pc' = [pc EXCEPT ![p] = "discovered"]
    /\ UNCHANGED <<now, kv, started, ticks, trigger, pings, fetchCalls,
                   resultsData, existingData, cutoffTime, history, kvCalls,
                   saveResult, returned, response, envOf, request, statusRead>>

\* nothing happens for longer than the history is kept
Idle ==
    /\ now' = now + HISTORY_RETENTION_MS + Hour
    /\ ticks' = ticks + 1
    /\ UNCHANGED <<kv, started, pc, trigger, projects, pings, fetchCalls,
                   resultsData, existingData, cutoffTime, history, kvCalls,
                   saveResult, returned, response, envOf, request, statusRead>>

-----------------------------------------------------------------------------
(* The specifications *)

\* one invocation at a time, of a worker deployed with any of the environments
Next ==
    \/ \E env \in Envs : started < MaxRuns /\ FetchManual("w1", env)
    \/ \E env \in Envs : started < MaxRuns /\ Scheduled("w1", env)
    \/ \E i \in 1..Len(pings["w1"]) : PingResponse("w1", i)
    \/ \E i \in 1..Len(pings["w1"]) : PingError("w1", i)
    \/ AwaitPings("w1")
    \/ KvGet("w1")
    \/ KvGetFail("w1")
    \/ KvPut("w1")
    \/ KvPutFail("w1")
    \/ Return("w1")
    \/ ticks < MaxTicks /\ Tick

Spec == Init /\ [][Next]_vars

\* invocations that overlap, of a worker deployed without projects
NextAppend ==
    \/ \E p \in Procs : started < MaxAppends /\ FetchManual(p, EnvNone)
    \/ \E p \in Procs : started < MaxAppends /\ Scheduled(p, EnvNone)
    \/ \E p \in Procs : KvGet(p)
    \/ \E p \in Procs : KvGetFail(p)
    \/ \E p \in Procs : KvPut(p)
    \/ \E p \in Procs : KvPutFail(p)
    \/ \E p \in Procs : Return(p)
    \/ ticks < MaxAppendTicks /\ Tick

SpecAppend == Init /\ [][NextAppend]_vars

\* one invocation at a time of the revision in src/unnamed/part_000
NextP0 ==
    \/ \E env \in Envs : started < MaxRuns /\ FetchP0("w1", env)
    \/ \E env \in Envs : started < MaxRuns /\ ScheduledP0("w1", env)
    \/ \E i \in 1..Len(pings["w1"]) : PingResponse("w1", i)
    \/ \E i \in 1..Len(pings["w1"]) : PingError("w1", i)
    \/ AwaitPingsP0("w1")
    \/ ticks < MaxTicks /\ Tick

SpecP0 == Init /\ [][NextP0]_vars

\* scheduled runs of a worker with at most one project, one after the other, and
\* requests to /health and /status while they go on
StatusEnvs == {EnvNone, EnvOne}

NextStatus ==
    \/ \E env \in StatusEnvs : started < MaxStatusRuns /\ Scheduled("w1", env)
    \/ \E i \in 1..Len(pings["w1"]) : PingResponse("w1", i)
    \/ \E i \in 1..Len(pings["w1"]) : PingError("w1", i)
    \/ AwaitPings("w1")
    \/ KvGet("w1")
    \/ KvGetFail("w1")
    \/ KvPut("w1")
    \/ KvPutFail("w1")
    \/ Return("w1")
    \/ \E env \in StatusEnvs : FetchHealth("w2", env)
    \/ \E env \in StatusEnvs : FetchStatus("w2", env)
    \/ StatusKvGet("w2")
    \/ StatusKvGetFail("w2")
    \/ ticks < MaxStatusTicks /\ Idle

SpecStatus == Init /\ [][NextStatus]_vars

\* manual triggers, one after the other, of a worker with no or three projects,
\* within one millisecond of the clock
NextManual ==
    \/ \E env \in ManualEnvs : started < MaxManualRuns /\ FetchManual("w1", env)
    \/ \E i \in 1..Len(pings["w1"]) : PingResponse("w1", i)
    \/ \E i \in 1..Len(pings["w1"]) : PingError("w1", i)
    \/ AwaitPings("w1")
    \/ KvGet("w1")
    \/ KvGetFail("w1")
    \/ KvPut("w1")
    \/ KvPutFail("w1")
    \/ Return("w1")

SpecManual == Init /\ [][NextManual]_vars

\* the histories a worker without projects has left in the store by some instant
\* of PruneTimes: runs in the order of their instants, none more than 24 hours
\* older than the last
PruneTimes == {0, Hour, Day, Day + Hour}
StoredRuns ==
    {NewRun(NoProjectsData, trig, t) : trig \in {"manual", "cron"}, t \in PruneTimes}
StoredLogs ==
    {runs \in UNION {[1..n -> StoredRuns] : n \in 1..MaxLogLen} :
        /\ \A i \in 1..(Len(runs) - 1) : RunTimeOf(runs[i]) <= RunTimeOf(runs[i + 1])
        /\ \A i \in 1..Len(runs) :
              RunTimeOf(runs[i]) >= RunTimeOf(runs[Len(runs)]) - HISTORY_RETENTION_MS}
StoredValue(runs) ==
    JSONstringify([runs |-> runs, lastUpdated |-> runs[Len(runs)].timestamp])

\* a worker without projects, its store empty, holding one of these histories or
\* holding a value that is not JSON, a day and an hour after the first instant
InitPrune ==
    /\ now = Day + Hour
    /\ kv \in {NULL, Unparsable} \cup {StoredValue(runs) : runs \in StoredLogs}
    /\ started = 0
    /\ ticks = 0
    /\ pc = [p \in Procs |-> "idle"]
    /\ trigger = [p \in Procs |-> "unknown"]
    /\ projects = [p \in Procs |-> <<>>]
    /\ pings = [p \in Procs |-> <<>>]
    /\ fetchCalls = [p \in Procs |-> <<>>]
    /\ resultsData = [p \in Procs |-> NoRecord]
    /\ existingData = [p \in Procs |-> NULL]
    /\ cutoffTime = [p \in Procs |-> 0]
    /\ history = [p \in Procs |-> NoRecord]
    /\ kvCalls = [p \in Procs |-> <<>>]
    /\ saveResult = [p \in Procs |-> NoPromise]
    /\ returned = [p \in Procs |-> NoPromise]
    /\ response = [p \in Procs |-> NoRecord]
    /\ envOf = [p \in Procs |-> EnvNone]
    /\ request = [p \in Procs |-> NoRecord]
    /\ statusRead = [p \in Procs |-> NoPromise]

\* one more run of that worker
NextPrune ==
    \/ started < MaxRuns /\ FetchManual("w1", EnvNone)
    \/ started < MaxRuns /\ Scheduled("w1", EnvNone)
    \/ KvGet("w1")
    \/ KvGetFail("w1")
    \/ KvGetUnparsable("w1")
    \/ KvPut("w1")
    \/ KvPutFail("w1")
    \/ Return("w1")

SpecPrune == InitPrune /\ [][NextPrune]_vars

\* discoverProjects applied to an environment
InitDiscover ==
    /\ now = 0
    /\ kv = NULL
    /\ started = 0
    /\ ticks = 0
    /\ pc = [p \in Procs |-> "idle"]
    /\ trigger = [p \in Procs |-> "unknown"]
    /\ projects = [p \in Procs |-> <<>>]
    /\ pings = [p \in Procs |-> <<>>]
    /\ fetchCalls = [p \in Procs |-> <<>>]
    /\ resultsData = [p \in Procs |-> NoRecord]
    /\ existingData = [p \in Procs |-> NULL]
    /\ cutoffTime = [p \in Procs |-> 0]
    /\ history = [p \in Procs |-> NoRecord]
    /\ kvCalls = [p \in Procs |-> <<>>]
    /\ saveResult = [p \in Procs |-> NoPromise]
    /\ returned = [p \in Procs |-> NoPromise]
    /\ response = [p \in Procs |-> NoRecord]
    /\ \E env \in DiscoverEnvs : envOf = [p \in Procs |-> env]
    /\ request = [p \in Procs |-> NoRecord]
    /\ statusRead = [p \in Procs |-> NoPromise]

NextDiscover == Discover("w1")

SpecDiscover == InitDiscover /\ [][NextDiscover]_vars

-----------------------------------------------------------------------------
(* Properties of a run *)

Range(seq) == {seq[i] : i \in 1..Len(seq)}

\* the invocation has returned a run to its handler
HasReturned(p) == returned[p].state = "fulfilled"

\* saveRunToKV of the invocation has written the history / has failed
SavedOk(p) ==
    /\ saveResult[p].state = "fulfilled"
    /\ saveResult[p].console[1] = "Saved run to KV history"
SaveFailed(p) ==
    /\ saveResult[p].state # "none"
    /\ saveResult[p].console[1] = "Failed to save to KV"

\* C1: in every run runKeepalive returns, summary.total is the length of results
\* and summary.succeeded + summary.failed is summary.total
C1_CountsConsistent ==
    \A p \in Procs :
        HasReturned(p) =>
            LET run == returned[p].value
            IN  /\ run.summary.total = Len(run.results)
                /\ run.summary.succeeded + run.summary.failed = run.summary.total

\* a returned run over two targets, one that answered 500 and one that answered 200
C1_Witness ==
    \E p \in Procs :
        /\ HasReturned(p)
        /\ returned[p].value.summary = [total |-> 2, succeeded |-> 1, failed |-> 1]
        /\ \E i \in 1..2 : /\ "statusCode" \in DOMAIN returned[p].value.results[i]
                           /\ returned[p].value.results[i].statusCode = 500

\* C2 as stated: in every returned run, the run without targets included, success
\* is true exactly when the failed count is 0
C2_SuccessIffNoFailure ==
    \A p \in Procs :
        HasReturned(p) =>
            (returned[p].value.success <=> returned[p].value.summary.failed = 0)

\* C2 amended: in every returned run over at least one target, success is true
\* exactly when the failed count is 0; the run without targets has success false
\* and a failed count of 0
C2_SuccessIffNoFailureWithTargets ==
    \A p \in Procs :
        HasReturned(p) =>
            LET run == returned[p].value
            IN  IF Len(projects[p]) = 0
                THEN ~run.success /\ run.summary.failed = 0
                ELSE run.success <=> run.summary.failed = 0

\* a returned run over two targets that both answered 200
C2_Witness ==
    \E p \in Procs :
        /\ HasReturned(p)
        /\ returned[p].value.success
        /\ returned[p].value.summary = [total |-> 2, succeeded |-> 2, failed |-> 0]

\* C3: pingProject never fails: every probe that has settled is fulfilled with a
\* result. After a response, success is the response's ok flag and statusCode its
\* status; after a transport failure, success is false, there is no statusCode and
\* error is the failure's message. duration is there in both cases: the time from
\* the start of the probe to its result.
C3_ProbeResult ==
    \A p \in Procs : \A i \in 1..Len(pings[p]) :
        LET ping == pings[p][i]
        IN  /\ ping.state \in {"pending", "fulfilled"}
            /\ ping.state = "fulfilled" =>
                 LET result == ping.value
                     got == ping.settled
                 IN  /\ "status" \in DOMAIN got =>
                           /\ result.success = got.ok
                           /\ "statusCode" \in DOMAIN result
                           /\ result.statusCode = got.status
                           /\ "error" \notin DOMAIN result
                     /\ "status" \notin DOMAIN got =>
                           /\ result.success = FALSE
                           /\ "statusCode" \notin DOMAIN result
                           /\ "error" \in DOMAIN result
                           /\ result.error = got.message
                     /\ "duration" \in DOMAIN result
                     /\ result.duration >= 0
                     /\ result.duration =
                          DateParse(result.timestamp) - ping.startTime
                     /\ result.project = ping.project.name

\* a run in which one probe got a 500 after an hour and another failed at
\* transport level
C3_Witness ==
    \E p \in Procs : \E i, j \in 1..Len(pings[p]) :
        /\ pings[p][i].state = "fulfilled"
        /\ pings[p][j].state = "fulfilled"
        /\ "status" \in DOMAIN pings[p][i].settled
        /\ pings[p][i].settled.status = 500
        /\ pings[p][i].value.duration = Hour
        /\ "message" \in DOMAIN pings[p][j].settled

\* C4: a run over n >= 1 targets sends one request to each target, in the order of
\* discovery, and none again after a failure; the results it returns hold one
\* result per target, in that order, each the result of that target's own probe
C4_OneResultPerTarget ==
    \A p \in Procs :
        /\ Len(fetchCalls[p]) = Len(projects[p])
        /\ \A i \in 1..Len(projects[p]) :
               fetchCalls[p][i] = PingRequest(projects[p][i])
        /\ (HasReturned(p) /\ Len(projects[p]) >= 1) =>
               LET results == returned[p].value.results
               IN  /\ Len(results) = Len(projects[p])
                   /\ \A i \in 1..Len(projects[p]) :
                          /\ results[i] = pings[p][i].value
                          /\ results[i].project = projects[p][i].name

\* a returned run over two targets whose first probe failed at transport level
\* and whose second got a 200
C4_Witness ==
    \E p \in Procs :
        /\ HasReturned(p)
        /\ Len(projects[p]) = 2
        /\ "error" \in DOMAIN returned[p].value.results[1]
        /\ returned[p].value.results[2].success
        /\ projects[p][1].name # projects[p][2].name

\* C5: when runKeepalive returns, whatever the run (succeeded, with failed
\* targets, without targets), it has called the history store (the get of
\* saveRunToKV) and saveRunToKV has settled. It holds of index.js (Spec) and fails
\* of the revision in src/unnamed/part_000 (SpecP0), which returns the run without
\* a call to any store.
C5_SaveBeforeReturn ==
    \A p \in Procs :
        returned[p].state # "none" =>
            /\ kvCalls[p] # <<>>
            /\ kvCalls[p][1] = "get"
            /\ saveResult[p].state # "none"

\* index.js: a returned run with a failed target, saved to the store
C5_Witness ==
    \E p \in Procs :
        /\ HasReturned(p)
        /\ returned[p].value.summary.failed >= 1
        /\ SavedOk(p)
        /\ kvCalls[p] = <<"get", "put">>

\* C6: when the get or the put of saveRunToKV fails, runKeepalive still returns
\* resultsData, the summary it built before saving, and the manual trigger answers
\* 200 or 207 by that summary's success alone
C6_SaveFailureSwallowed ==
    \A p \in Procs :
        (returned[p].state # "none" /\ SaveFailed(p)) =>
            /\ returned[p] = [state |-> "fulfilled", value |-> resultsData[p]]
            /\ resultsData[p] =
                 IF Len(projects[p]) = 0 THEN NoProjectsData
                 ELSE Aggregate([i \in 1..Len(pings[p]) |-> pings[p][i].value])
            /\ trigger[p] = "manual" =>
                 /\ response[p].status =
                      IF resultsData[p].success THEN 200 ELSE 207
                 /\ response[p].body = JSONstringify(resultsData[p])

\* a manual run whose probes all succeeded and whose put failed, answered with 200
C6_Witness ==
    \E p \in Procs :
        /\ HasReturned(p)
        /\ trigger[p] = "manual"
        /\ saveResult[p].console = <<"Failed to save to KV", <<"KV PUT failed">>>>
        /\ response[p].status = 200

-----------------------------------------------------------------------------
(* Properties of the history *)

\* the runs of a value read from the store
RunsOf(stored) == IF stored = NULL THEN <<>> ELSE JSONparse(stored).runs

\* the instant of an entry of the history
RunTime(run) == DateParse(run.timestamp)

\* the instant at which the invocation pruned
PruneTime(p) == cutoffTime[p] + HISTORY_RETENTION_MS

\* the entry the invocation made for its own run
OwnRun(p) ==
    [timestamp |-> toISOString(PruneTime(p)),
     trigger |-> trigger[p],
     success |-> resultsData[p].success,
     results |-> resultsData[p].results,
     summary |-> resultsData[p].summary]

\* the entries of runs that are not older than 24 hours at the instant t
InWindow(runs, t) ==
    SelectSeq(runs, LAMBDA run : t - RunTime(run) <= 24 * Hour)

\* C7: in the log a successful append has written, every entry is at most 24
\* hours older than the instant of the prune, and an entry of the log read is in
\* the log written exactly when it is at most 24 hours old (one that is exactly
\* 24 hours old is kept)
C7_PrunedToWindow ==
    \A p \in Procs :
        SavedOk(p) =>
            LET written == history[p].runs
                read == RunsOf(existingData[p])
            IN  /\ \A i \in 1..Len(written) :
                       RunTime(written[i]) >= PruneTime(p) - 24 * Hour
                /\ \A j \in 1..Len(read) :
                       (RunTime(read[j]) >= PruneTime(p) - 24 * Hour)
                           <=> read[j] \in Range(written)

\* an append that read a run 25 hours old and a run 1 hour old and wrote the run
\* 1 hour old and its own
C7_Witness ==
    \E p \in Procs :
        /\ SavedOk(p)
        /\ Len(RunsOf(existingData[p])) = 2
        /\ PruneTime(p) - RunTime(RunsOf(existingData[p])[1]) = 25 * Hour
        /\ PruneTime(p) - RunTime(RunsOf(existingData[p])[2]) = Hour
        /\ history[p].runs = <<RunsOf(existingData[p])[2], OwnRun(p)>>
        /\ kv = JSONstringify(history[p])

\* the step in which the store takes the put of invocation p
PutTaken(p) ==
    /\ pc[p] = "await_put"
    /\ pc'[p] = "saved"
    /\ saveResult'[p].console[1] = "Saved run to KV history"

\* C8: a successful append that no other write has overlapped (the store still
\* holds what the append read) writes the stored runs that are at most 24 hours
\* old, in their order, followed by its own run; a store without a log counts as
\* an empty sequence of runs
C8_Cumulative ==
    [][\A p \in Procs :
          (PutTaken(p) /\ kv = existingData[p]) =>
              RunsOf(kv') = Append(InWindow(RunsOf(kv), PruneTime(p)), OwnRun(p))]_vars

\* an append that has been written over a log of two runs and has kept both
C8_Witness ==
    \E p \in Procs :
        /\ SavedOk(p)
        /\ kv = JSONstringify(history[p])
        /\ Len(RunsOf(existingData[p])) = 2
        /\ history[p].runs = Append(RunsOf(existingData[p]), OwnRun(p))

\* two appends, both written, that read the same log and added runs that differ
\* from each other and from the runs of that log
Raced(p, q) ==
    /\ p # q
    /\ SavedOk(p)
    /\ SavedOk(q)
    /\ existingData[p] = existingData[q]
    /\ OwnRun(p) # OwnRun(q)
    /\ OwnRun(p) \notin Range(RunsOf(existingData[p]))
    /\ OwnRun(q) \notin Range(RunsOf(existingData[q]))

\* C9: append is not atomic: a put replaces the whole log, so after two appends
\* that read the same log have both been written, the stored log never holds
\* both of their runs: one of the two updates is lost
C9_LostUpdate ==
    \A p, q \in Procs :
        Raced(p, q) =>
            ~(OwnRun(p) \in Range(RunsOf(kv)) /\ OwnRun(q) \in Range(RunsOf(kv)))

\* two appends that read the same log of one run, both written: the stored log
\* is that run and the run of the second writer, the first writer's run is gone
C9_Witness ==
    \E p, q \in Procs :
        /\ Raced(p, q)
        /\ Len(RunsOf(existingData[p])) = 1
        /\ RunsOf(kv) = Append(RunsOf(existingData[p]), OwnRun(q))
        /\ OwnRun(p) \notin Range(RunsOf(kv))

\* C10: the stored runs are in non-decreasing order of timestamp, also after
\* overlapping appends
C10_Sorted ==
    \A i, j \in 1..Len(RunsOf(kv)) :
        i < j => RunTime(RunsOf(kv)[i]) <= RunTime(RunsOf(kv)[j])

\* a stored log of two runs an hour apart, left by two appends that read the
\* same log and were both written
C10_Witness ==
    \E p, q \in Procs :
        /\ Raced(p, q)
        /\ Len(RunsOf(kv)) = 2
        /\ RunTime(RunsOf(kv)[2]) - RunTime(RunsOf(kv)[1]) = Hour
        /\ RunTime(OwnRun(p)) < RunTime(OwnRun(q))
        /\ OwnRun(p) \notin Range(RunsOf(kv))

-----------------------------------------------------------------------------
(* Properties of /health and /status *)

\* the invocation has answered a /status request
StatusAnswered(p) ==
    /\ pc[p] = "done"
    /\ "pathname" \in DOMAIN request[p]
    /\ request[p].pathname = "/status"

\* C11: the answer of /status is determined by the log getStatusFromKV returned:
\* no_data with 200 for no log or a log without runs; otherwise healthy with 200
\* when the last run succeeded and degraded with 503 when it did not, whatever the
\* runs before it; runCount is the number of runs, oldestRun the timestamp of the
\* first
C11_StatusOfLastRun ==
    \A p \in Procs :
        (StatusAnswered(p) /\ statusRead[p].state = "fulfilled") =>
            LET hist == statusRead[p].value
                body == JSONparse(response[p].body)
            IN  IF IsNull(hist) \/ Len(hist.runs) = 0
                THEN response[p].status = 200 /\ body.status = "no_data"
                ELSE LET last == hist.runs[Len(hist.runs)]
                     IN  /\ last.success =>
                               response[p].status = 200 /\ body.status = "healthy"
                         /\ ~last.success =>
                               response[p].status = 503 /\ body.status = "degraded"
                         /\ body.history.runCount = Len(hist.runs)
                         /\ body.history.oldestRun = hist.runs[1].timestamp

\* /status has answered healthy for a log of two runs whose first run failed
C11_Witness ==
    \E p \in Procs :
        /\ StatusAnswered(p)
        /\ statusRead[p].state = "fulfilled"
        /\ ~IsNull(statusRead[p].value)
        /\ Len(statusRead[p].value.runs) = 2
        /\ ~statusRead[p].value.runs[1].success
        /\ statusRead[p].value.runs[2].success
        /\ response[p].status = 200
        /\ JSONparse(response[p].body).history.runCount = 2

\* the step in which getStatusFromKV settles and /status answers
StatusReadStep(p) == pc[p] = "await_status" /\ pc'[p] = "done"

\* the read of getStatusFromKV has failed
StatusReadFailed(read) ==
    read.console # <<>> /\ read.console[1] = "Failed to read from KV"

\* C12: getStatusFromKV never throws; when its read fails, and when nothing was
\* ever written, it returns null and /status answers no_data with 200; when the
\* read of a written store succeeds it returns the stored log as it is
C12_FailedReadAsNeverWritten ==
    [][\A p \in Procs :
         StatusReadStep(p) =>
             /\ statusRead'[p].state = "fulfilled"
             /\ IF StatusReadFailed(statusRead'[p]) \/ kv = NULL
                THEN /\ IsNull(statusRead'[p].value)
                     /\ response'[p].status = 200
                     /\ JSONparse(response'[p].body).status = "no_data"
                ELSE /\ ~IsNull(statusRead'[p].value)
                     /\ JSONstringify(statusRead'[p].value) = kv]_vars

\* /status has answered no_data because the read of getStatusFromKV failed
C12_Witness ==
    \E p \in Procs :
        /\ StatusAnswered(p)
        /\ StatusReadFailed(statusRead[p])
        /\ IsNull(statusRead[p].value)
        /\ response[p].status = 200
        /\ JSONparse(response[p].body).status = "no_data"

-----------------------------------------------------------------------------
(* Properties of discovery *)

\* the environment has both entries of project number i, and neither is empty
Complete(env, i) ==
    /\ <<"SUPABASE_URL", i>> \in DOMAIN env
    /\ <<"SUPABASE_ANON_KEY", i>> \in DOMAIN env
    /\ env[<<"SUPABASE_URL", i>>] # <<>>
    /\ env[<<"SUPABASE_ANON_KEY", i>>] # <<>>

\* the project numbers from 1 to 99 that are complete, in ascending order
CompleteOrdinals(env) ==
    SelectSeq([i \in 1..99 |-> i], LAMBDA i : Complete(env, i))

\* C13: discoverProjects returns one project for each project number from 1 to
\* 99 that has both entries non-empty, with the URL and key of that number, in
\* ascending order of the numbers, and nothing else
C13_DiscoversCompletePairs ==
    \A p \in Procs :
        pc[p] = "discovered" =>
            LET ords == CompleteOrdinals(envOf[p])
            IN  /\ Len(projects[p]) = Len(ords)
                /\ \A k \in 1..Len(ords) :
                      /\ projects[p][k].url = envOf[p][<<"SUPABASE_URL", ords[k]>>]
                      /\ projects[p][k].anonKey =
                             envOf[p][<<"SUPABASE_ANON_KEY", ords[k]>>]

\* project number 1 has a URL but an empty key, numbers 2 to 98 have nothing,
\* number 99 is complete and so is number 100: the one project found is number 99
C13_Witness ==
    \E p \in Procs :
        /\ pc[p] = "discovered"
        /\ <<"SUPABASE_URL", 1>> \in DOMAIN envOf[p]
        /\ envOf[p][<<"SUPABASE_URL", 1>>] = UrlA
        /\ <<"SUPABASE_ANON_KEY", 1>> \in DOMAIN envOf[p]
        /\ envOf[p][<<"SUPABASE_ANON_KEY", 1>>] = <<>>
        /\ <<"SUPABASE_URL", 100>> \in DOMAIN envOf[p]
        /\ Len(projects[p]) = 1
        /\ projects[p][1].anonKey = KeyOf(99)

\* the project number of the k-th project discovered
OrdinalOf(p, k) == CompleteOrdinals(envOf[p])[k]

\* the name of every discovered project is the first label of the host of its
\* URL, or prefix followed by its project number when the URL does not parse or
\* that label is empty
NamedByHostOr(prefix) ==
    \A p \in Procs :
        pc[p] = "discovered" =>
            \A k \in 1..Len(projects[p]) :
                LET url == projects[p][k].url
                    name == projects[p][k].name
                IN  /\ url = UrlA => name = <<"a">>
                    /\ url = UrlLong => name = <<"a", "b", "c">>
                    /\ url \in {UrlBad, UrlNoLabel} =>
                          name = prefix \o NumberToString(OrdinalOf(p, k))

\* C14 as stated: the name is the first label of the host of the URL, or
\* "target-<ordinal>" when the URL does not parse or the label is empty
C14_NameOrTargetOrdinal == NamedByHostOr(<<"t", "a", "r", "g", "e", "t", "-">>)

\* C14 amended: the name is the first label of the host of the URL, or
\* "project-<ordinal>" when the URL does not parse or the label is empty
C14_NameOrProjectOrdinal == NamedByHostOr(<<"p", "r", "o", "j", "e", "c", "t", "-">>)

\* projects number 1 and 99 are found, the first named after its host, the second,
\* whose URL does not parse, after its number
C14_Witness ==
    \E p \in Procs :
        /\ pc[p] = "discovered"
        /\ Len(projects[p]) = 2
        /\ projects[p][1].url = UrlLong
        /\ projects[p][1].name = <<"a", "b", "c">>
        /\ projects[p][2].url = UrlBad
        /\ projects[p][2].name = <<"p", "r", "o", "j", "e", "c", "t", "-", "9", "9">>

-----------------------------------------------------------------------------
(* Properties of the manual trigger *)

\* the invocation has answered a request to the manual trigger
ManualAnswered(p) ==
    /\ pc[p] = "done"
    /\ trigger[p] = "manual"
    /\ "status" \in DOMAIN response[p]

\* the manual trigger has made one run: one probe for each project, one append to
\* the history, and it has answered with the summary of that run
OneManualRun(p) ==
    /\ HasReturned(p)
    /\ Len(fetchCalls[p]) = Len(projects[p])
    /\ returned[p].value.summary.total = Len(projects[p])
    /\ Len(SelectSeq(kvCalls[p], LAMBDA c : c = "get")) = 1
    /\ response[p].body = JSONstringify(returned[p].value)

\* C15 as stated: a request to the manual trigger makes one run and answers with
\* its summary, either with status 200 and success true, or with status 207 and
\* at least one failed target
C15_OkOrFailedTarget ==
    \A p \in Procs :
        ManualAnswered(p) =>
            /\ OneManualRun(p)
            /\ \/ response[p].status = 200 /\ returned[p].value.success
               \/ response[p].status = 207 /\ returned[p].value.summary.failed >= 1

\* C15 amended: a request to the manual trigger makes one run and answers with
\* its summary, with status 200 when success is true and 207 when it is false,
\* which is when at least one target failed or when there is no target
C15_OkOrNotSuccess ==
    \A p \in Procs :
        ManualAnswered(p) =>
            LET run == returned[p].value
            IN  /\ OneManualRun(p)
                /\ response[p].status \in {200, 207}
                /\ response[p].status = 200 <=> run.success
                /\ response[p].status = 207 <=>
                       (run.summary.failed >= 1 \/ run.summary.total = 0)

\* three targets, the first answers 500, the request to the second fails, the
\* third answers 200: counts 3/1/2, success false, status 207
C15_Witness ==
    \E p \in Procs :
        /\ ManualAnswered(p)
        /\ HasReturned(p)
        /\ Len(returned[p].value.results) = 3
        /\ "statusCode" \in DOMAIN returned[p].value.results[1]
        /\ returned[p].value.results[1].statusCode = 500
        /\ "error" \in DOMAIN returned[p].value.results[2]
        /\ returned[p].value.results[3].success
        /\ returned[p].value.summary = [total |-> 3, succeeded |-> 1, failed |-> 2]
        /\ ~returned[p].value.success
        /\ response[p].status = 207

-----------------------------------------------------------------------------
(* Properties of the run without projects *)

\* the invocation is a run that found no project, past its discovery
RunWithoutProjects(p) ==
    /\ trigger[p] \in {"manual", "cron"}
    /\ pc[p] \in {"await_get", "await_put", "saved", "done"}
    /\ Len(projects[p]) = 0

\* a run that has no target: success false, no results, counts 0/0/0
IsEmptyRun(run) ==
    /\ ~run.success
    /\ run.results = <<>>
    /\ run.summary = [total |-> 0, succeeded |-> 0, failed |-> 0]

\* C16: a run that finds no project sends no probe, has success false, empty
\* results and counts 0/0/0, which is what it returns, and goes through
\* saveRunToKV like any run: once its put is taken it is the last run of the
\* stored history
C16_EmptyRunRecorded ==
    \A p \in Procs :
        RunWithoutProjects(p) =>
            /\ fetchCalls[p] = <<>>
            /\ pings[p] = <<>>
            /\ IsEmptyRun(resultsData[p])
            /\ kvCalls[p] # <<>> /\ kvCalls[p][1] = "get"
            /\ HasReturned(p) => returned[p].value = resultsData[p]
            /\ (pc[p] \in {"saved", "done"} /\ SavedOk(p)) =>
                   /\ Len(RunsOf(kv)) > 0
                   /\ IsEmptyRun(RunsOf(kv)[Len(RunsOf(kv))])
                   /\ RunsOf(kv)[Len(RunsOf(kv))].trigger = trigger[p]

\* a run without projects has returned and saved, and /status, asked after it,
\* has reported it as the last run: degraded, with counts 0/0/0
C16_Witness ==
    /\ RunWithoutProjects("w1")
    /\ HasReturned("w1")
    /\ SavedOk("w1")
    /\ StatusAnswered("w2")
    /\ response["w2"].status = 503
    /\ JSONparse(response["w2"].body).lastRun = RunsOf(kv)[Len(RunsOf(kv))].timestamp
    /\ JSONparse(response["w2"].body).results = <<>>
    /\ JSONparse(response["w2"].body).summary.total = 0

-----------------------------------------------------------------------------
(* Properties of the filter *)

\* saveRunToKV of the invocation has filtered the history
HasPruned(p) ==
    /\ pc[p] \in {"await_put", "saved", "done"}
    /\ "runs" \in DOMAIN history[p]

\* C17: the runs saveRunToKV has kept with its cutoff are all kept, in the same
\* order, when the filter is applied to them again with the same cutoff
C17_PruneIdempotent ==
    \A p \in Procs :
        HasPruned(p) => Prune(history[p].runs, cutoffTime[p]) = history[p].runs

\* saveRunToKV has dropped a run from a history of two and kept two runs
C17_Witness ==
    \E p \in Procs :
        /\ HasPruned(p)
        /\ Len(RunsOf(existingData[p])) = 2
        /\ Len(history[p].runs) = 2
        /\ RunTimeOf(RunsOf(existingData[p])[1]) < cutoffTime[p]
        /\ RunTimeOf(history[p].runs[1]) = cutoffTime[p]

-----------------------------------------------------------------------------
(* Properties of the window of /status *)

\* /status has answered with a report on runs
StatusReported(p) ==
    /\ StatusAnswered(p)
    /\ statusRead[p].state = "fulfilled"
    /\ "history" \in DOMAIN JSONparse(response[p].body)

\* C18: every run a /status answer reports on, the runCount runs of the log from
\* the one given as oldestRun on, is stamped no more than 24 hours before the
\* instant the request arrived
C18_StatusWithinWindow ==
    \A p \in Procs :
        StatusReported(p) =>
            LET body == JSONparse(response[p].body)
                runs == statusRead[p].value.runs
                since == request[p].time - HISTORY_RETENTION_MS
            IN  /\ DateParse(body.history.oldestRun) >= since
                /\ \A i \in 1..body.history.runCount : RunTimeOf(runs[i]) >= since

-----------------------------------------------------------------------------
(* Properties of the read-only routes *)

\* the step is one of invocation p, which serves /health or /status
ReadOnlyStep(p) ==
    /\ "pathname" \in DOMAIN request'[p]
    /\ pc'[p] # pc[p] \/ request'[p] # request[p] \/ response'[p] # response[p]

\* C19: a step of an invocation that serves /health or /status leaves the store
\* as it is and sends no request to a target: the invocation has no probe and no
\* put, and the probes of the other invocations are what they were
C19_ReadOnlyRoutes ==
    [][\A p \in Procs :
         ReadOnlyStep(p) =>
             /\ kv' = kv
             /\ fetchCalls'[p] = <<>>
             /\ pings'[p] = <<>>
             /\ \A i \in 1..Len(kvCalls'[p]) : kvCalls'[p][i] # "put"
             /\ \A q \in Procs \ {p} : fetchCalls'[q] = fetchCalls[q]]_vars

\* /health has answered 200 with the store holding a history, and has made no
\* call on the store
C19_Witness ==
    \E p \in Procs :
        /\ pc[p] = "done"
        /\ "pathname" \in DOMAIN request[p]
        /\ request[p].pathname = "/health"
        /\ response[p].status = 200
        /\ JSONparse(response[p].body) = [status |-> "ok"]
        /\ kvCalls[p] = <<>>
        /\ Len(RunsOf(kv)) > 0

-----------------------------------------------------------------------------
(* Properties of the join of the probes *)

\* the invocation is a run over at least one project
RunWithProjects(p) ==
    /\ trigger[p] \in {"manual", "cron"}
    /\ pc[p] # "idle"
    /\ Len(projects[p]) > 0

\* the run has gone past its Promise.all: it has aggregated, called the store or
\* returned
PastJoin(p) ==
    \/ "success" \in DOMAIN resultsData[p]
    \/ kvCalls[p] # <<>>
    \/ returned[p].state # "none"
    \/ "status" \in DOMAIN response[p]

\* C20: a run has sent the requests of all its probes, at one instant, before it
\* waits for any of them; and it has aggregated, called the store or returned
\* only if every probe has settled, with one result for each
C20_JoinOfAllProbes ==
    \A p \in Procs :
        RunWithProjects(p) =>
            /\ Len(pings[p]) = Len(projects[p])
            /\ Len(fetchCalls[p]) = Len(projects[p])
            /\ \A i \in 1..Len(pings[p]) : pings[p][i].startTime = pings[p][1].startTime
            /\ PastJoin(p) =>
                   /\ \A i \in 1..Len(pings[p]) : pings[p][i].state = "fulfilled"
                   /\ Len(resultsData[p].results) = Len(projects[p])

\* of two probes in flight the first has failed and the second is still pending
\* after the clock has advanced: the run has not aggregated, saved or returned
C20_Witness ==
    \E p \in Procs :
        /\ RunWithProjects(p)
        /\ pc[p] = "await_pings"
        /\ Len(pings[p]) = 2
        /\ pings[p][1].state = "fulfilled"
        /\ ~pings[p][1].value.success
        /\ pings[p][2].state = "pending"
        /\ now > pings[p][2].startTime
        /\ ~PastJoin(p)

-----------------------------------------------------------------------------
(* Properties of the recorded run *)

\* the invocation has finished a run whose put the store has taken
RunRecorded(p) ==
    /\ pc[p] = "done"
    /\ HasReturned(p)
    /\ SavedOk(p)
    /\ Len(RunsOf(kv)) > 0

\* the last run of the stored history has the success, results and counts that
\* the run returned; its trigger is "manual" when fetch made the run and
\* answered its caller, and cronLabel when scheduled made it, which answers
\* nobody
RecordedAsReturned(cronLabel) ==
    \A p \in Procs :
        RunRecorded(p) =>
            LET last == RunsOf(kv)[Len(RunsOf(kv))]
                run == returned[p].value
            IN  /\ last.success = run.success
                /\ last.results = run.results
                /\ last.summary = run.summary
                /\ "status" \in DOMAIN response[p] =>
                       /\ last.trigger = "manual"
                       /\ response[p].body = JSONstringify(run)
                /\ "none" \in DOMAIN response[p] => last.trigger = cronLabel

\* C21 as stated: the recorded run carries what the run returned, with trigger
\* manual for a run made by an HTTP request and scheduled for a run made by the
\* cron event
C21_RecordedWithScheduled == RecordedAsReturned("scheduled")

\* C21 amended: the recorded run carries what the run returned, with trigger
\* manual for a run made by an HTTP request and cron for a run made by the cron
\* event
C21_RecordedWithCron == RecordedAsReturned("cron")

\* the cron event has made a run over two projects, one of which failed; the run
\* is the last of the stored history, with trigger cron, and nobody was answered
C21_Witness ==
    \E p \in Procs :
        /\ RunRecorded(p)
        /\ "none" \in DOMAIN response[p]
        /\ RunsOf(kv)[Len(RunsOf(kv))].trigger = "cron"
        /\ RunsOf(kv)[Len(RunsOf(kv))].summary =
               [total |-> 2, succeeded |-> 1, failed |-> 1]
        /\ RunsOf(kv)[Len(RunsOf(kv))].results = returned[p].value.results

-----------------------------------------------------------------------------
(* Properties of the failed append *)

\* saveRunToKV of the invocation has failed reading the history: at the get, or
\* at JSON.parse of what the get returned
ReadFailed(p) ==
    /\ saveResult[p].state # "none"
    /\ saveResult[p].console[1] = "Failed to save to KV"
    /\ saveResult[p].console[2] \in {<<"KV GET failed">>, <<"Unexpected token">>}

\* C22: in the step in which the read of saveRunToKV fails, and in every later
\* step of that invocation, the store keeps its value and the invocation has
\* called no put
C22_FailedReadWritesNothing ==
    [][\A p \in Procs :
         (ReadFailed(p)' /\ pc'[p] # pc[p]) =>
             /\ kv' = kv
             /\ kvCalls'[p] = <<"get">>]_vars

\* the get has failed on a store that holds a history of two runs, which is still
\* there when the run has returned
C22_Witness ==
    \E p \in Procs :
        /\ ReadFailed(p)
        /\ saveResult[p].console[2] = <<"KV GET failed">>
        /\ pc[p] = "done"
        /\ HasReturned(p)
        /\ kv # NULL /\ JSONparses(kv)
        /\ Len(RunsOf(kv)) = 2

-----------------------------------------------------------------------------
(* Properties of the last entry *)

\* C23: the history the store takes from a put has runs, the last of them the
\* run of the invocation that put it; so the stored history, once there is one,
\* never has an empty sequence of runs, and ends with the run of the last put
\* taken
C23_EndsWithLastWriter ==
    [][/\ \A p \in Procs :
            PutTaken(p) =>
                /\ Len(RunsOf(kv')) > 0
                /\ RunsOf(kv')[Len(RunsOf(kv'))] = OwnRun(p)
       /\ kv' # NULL => Len(RunsOf(kv')) > 0]_vars

\* two appends have read the same history; the one that stamped its run first put
\* last: the stored history ends with its run and has lost the later run
C23_Witness ==
    \E p, q \in Procs :
        /\ p # q
        /\ SavedOk(p)
        /\ SavedOk(q)
        /\ pc[p] = "done" /\ pc[q] = "done"
        /\ existingData[p] = existingData[q]
        /\ RunTime(OwnRun(q)) < RunTime(OwnRun(p))
        /\ kv = JSONstringify(history[q])
        /\ RunsOf(kv)[Len(RunsOf(kv))] = OwnRun(q)
        /\ OwnRun(p) \notin Range(RunsOf(kv))

====
